---- MODULE Spec2Model ----
(***************************************************************************)
(* Camera video bridge: the transcode-session handler (RTSPStreamHandler), *)
(* the camera registry (CameraManager), the snapshot source                *)
(* (CameraController.getSnapshot), the snapshot cache (server.js) and the  *)
(* MJPEG proxy (VideoStreamProxy).                                         *)
(*                                                                         *)
(* Every await of the JavaScript source is a point where other handlers    *)
(* may run: an async function is one action per synchronous segment.       *)
(* The source URL of a session (customRTSPUrl, this.rtspUrl) is handed to  *)
(* the transcoder and to the log only and decides no branch; it is left to *)
(* the pure functions that build and mask it.                              *)
(***************************************************************************)
EXTENDS Integers, Sequences, FiniteSets, TLC

\* ------------------------------------------------------------------ bounds
MaxHandlers == 2    \* RTSPStreamHandler objects ever constructed
MaxCalls == 2       \* startStream calls in flight at once
MaxProcs == 2       \* transcoder processes alive at once
MaxClients == 1     \* interested clients per handler
MaxRestarts == 1    \* restart timers pending per handler
NumSnapshotEndpoints == 2  \* candidates of snapshotEndpoints that are modelled
MaxFailures == 6    \* cap of consecutiveFailures
NumMjpegPaths == 2  \* length of this.mjpegPaths
MaxProxyCalls == 2  \* proxyStream calls in flight

\* --------------------------------------------------------- program constants
DefaultWsPort == 9999
SNAPSHOT_INTERVAL_MS == 200
MAX_CONSECUTIVE_FAILURES == 5
DegradedIntervalMs == 1000
StaleMs == 300
maxFailuresBeforeRetry == 3
FetchTimeoutMs == 8000

CamIds == {"default", "cam1"}
Ports == {DefaultWsPort, DefaultWsPort + 1}
Handlers == 1..MaxHandlers
CallIds == 1..MaxCalls
ProcIds == 1..MaxProcs

VARIABLES
  \* CameraManager
  cameras,        \* cameras: id -> handler (0: not registered)
  nHandlers,      \* handlers constructed so far
  \* RTSPStreamHandler, per handler object
  wsPort,         \* this.wsPort
  stream,         \* this.stream: 0 (null) or the process it refers to
  clients,        \* this.clients.size
  restarts,       \* restart timers (setTimeout 2000) pending
  startedOk,      \* history: a startStream returned success and no stop, exit
                  \* or error event has happened since
  overtaken,      \* history: a stop was issued while this start call was waiting
  lastExit,       \* history: "none", or whether a restart was wanted at the
                  \* handler's most recent exit event ("idle" / "wanted")
  \* the environment of the handlers
  procs,          \* transcoder processes: state and owning handler
  portBound,      \* port -> some socket is bound to it
  \* startStream calls in flight
  calls,
  \* snapshotState.get(cameraId) of one camera (server.js)
  snapCam,                    \* the camera id the entry belongs to
  latestSnapshot,             \* "null" or "frame"
  snapshotAge,                \* Date.now() - lastSnapshotTime, saturating
  isRefreshing,
  consecutiveFailures,
  refreshInterval,            \* period of the live setInterval timer, 0: none
  timerController,            \* the controller that timer's callback holds
  liveTimers,                 \* setInterval timers of the camera not yet cleared
  currentIntervalMs,
  refreshCalls,               \* refreshSnapshot calls past the guard, not yet finished
  reqWaiting,                 \* an on-demand request awaits its refreshSnapshot
  resp,                       \* the last on-demand response and a sequence bit
  \* CameraController objects (camera-controller.js), one per registration,
  \* numbered like the handler that registerCamera builds with it
  workingSnapshotEndpoint,    \* 0 (null) or the index of the cached candidate
  snapshotEndpointFailCount,
  fetch,                      \* the getSnapshot call in flight: pc, loop index, lastError
  \* history of the snapshot source
  attempts,                   \* discovery attempts of the current / last getSnapshot
  startedCached,              \* that call began with a cached endpoint
  fetchResult,                \* outcome of the last completed getSnapshot
  everSucceeded,              \* some endpoint has succeeded
  cachedFailStreak,           \* consecutive failed attempts on the cached endpoint
  frameController,            \* the controller that fetched latestSnapshot
  \* VideoStreamProxy of that camera
  workingMJPEGUrl,            \* 0 (null) or the index of the cached path
  proxyCalls,                 \* proxyStream calls: position, probe index, res.headersSent
  probeOpen,                  \* per call slot: the request of a successful probe is open
  \* history of the MJPEG source
  mjpegFound,                 \* discovery has cached an endpoint at some time
  mjpegFailStreak,            \* consecutive upstream failures since the last
                              \* 200 response or discovery, saturating
  \* the shutdown path
  cleanup,                    \* cleanupAll: position, index of the camera being
                              \* cleaned, outcome of its port check, completed runs
  \* what a session is launched with
  bitrate,                    \* this.bitrate: number (in thousandths) and unit
  fps,                        \* this.fps
  password,                   \* this.password, a sequence of characters
  customUrl,                  \* the caller supplies the source URL
  ffmpegOptions,              \* the result of buildFfmpegOptions(), or NoOptions
  rtspUrl,                    \* this.rtspUrl, a sequence of characters and words
  logLine                     \* the URL in the last line written to the log

\* the state of the program and of its environment, without the history
rtspState == <<cameras, nHandlers, wsPort, stream, clients, restarts, procs,
               portBound, calls>>

rtspVars == <<rtspState, startedOk, lastExit, overtaken>>

\* the snapshot cache entry and the controller, without the history
snapState == <<snapCam, latestSnapshot, snapshotAge, isRefreshing,
               consecutiveFailures, refreshInterval, timerController, liveTimers,
               currentIntervalMs, refreshCalls, reqWaiting, resp, workingSnapshotEndpoint,
               snapshotEndpointFailCount, fetch>>

snapHistory == <<attempts, startedCached, fetchResult, everSucceeded,
                 cachedFailStreak, frameController>>

snapVars == <<snapState, snapHistory>>

mjpegVars == <<workingMJPEGUrl, proxyCalls, probeOpen, mjpegFound, mjpegFailStreak>>

shutdownVars == <<cleanup>>

launchVars == <<bitrate, fps, password, customUrl, ffmpegOptions, rtspUrl, logLine>>

vars == <<rtspVars, snapVars, mjpegVars, shutdownVars, launchVars>>

\* ------------------------------------------------------------ RTSP handler

NoProc == [st |-> "none", h |-> 0]
IdleCall == [h |-> 0, pc |-> "idle", obs |-> "none"]

\* isStreamActive()
isStreamActive(h) == stream[h] # 0

\* Transcoders launched by handler h that have neither exited nor been stopped.
Running(h) == {p \in ProcIds : procs[p].st = "running" /\ procs[p].h = h}

FreeCalls == {k \in CallIds : calls[k].pc = "idle"}
FreeProcs == {p \in ProcIds : procs[p].st = "none"}

\* stopStream(): the effect on the process table and on this.stream
StoppedProcs(h) ==
  IF stream[h] # 0 /\ procs[stream[h]].st = "running"
  THEN [procs EXCEPT ![stream[h]].st = "killed"]
  ELSE procs

\* new CameraManager([cameraConfig]), server.js line 202; for a camera other
\* than 'default', the registry after that camera has been registered
InitRegistry(cam) ==
  /\ cameras = [c \in CamIds |-> IF c = "default" THEN 1 ELSE IF c = cam THEN 2 ELSE 0]
  /\ nHandlers = IF cam = "default" THEN 1 ELSE 2

InitRtsp ==
  /\ wsPort = [h \in Handlers |-> DefaultWsPort]
  /\ stream = [h \in Handlers |-> 0]
  /\ clients = [h \in Handlers |-> 0]
  /\ restarts = [h \in Handlers |-> 0]
  /\ startedOk = [h \in Handlers |-> FALSE]
  /\ lastExit = [h \in Handlers |-> "none"]
  /\ overtaken = [k \in CallIds |-> FALSE]
  /\ procs = [p \in ProcIds |-> NoProc]
  /\ portBound = [p \in Ports |-> FALSE]
  /\ calls = [k \in CallIds |-> IdleCall]

\* startStream(), lines 177-194: the segment up to its first await.
BeginStart(h) ==
  /\ FreeCalls # {}
  /\ LET k == CHOOSE x \in FreeCalls : \A y \in FreeCalls : x <= y IN
     IF stream[h] # 0
     THEN \* stopStream(), then await waitForPortRelease(wsPort, 3000)
          /\ procs' = StoppedProcs(h)
          /\ stream' = [stream EXCEPT ![h] = 0]
          /\ startedOk' = [startedOk EXCEPT ![h] = FALSE]
          /\ calls' = [calls EXCEPT ![k] = [h |-> h, pc |-> "w3", obs |-> "none"]]
     ELSE \* await isPortAvailable(wsPort) inside the try block
          /\ calls' = [calls EXCEPT ![k] = [h |-> h, pc |-> "ck", obs |-> "none"]]
          /\ UNCHANGED <<procs, stream, startedOk>>

\* GET .../stream/rtsp/start: resolveCamera, then rtsp.startStream(customUrl)
StartRtspStream(id) ==
  /\ cameras[id] # 0
  /\ BeginStart(cameras[id])
  /\ UNCHANGED <<cameras, nHandlers, wsPort, clients, restarts, portBound>>
  /\ UNCHANGED <<lastExit, overtaken>>

\* isPortAvailable(port): the bind attempt of an outstanding check
ProbePort(k) ==
  /\ calls[k].pc \in {"w3", "ck", "w5"}
  /\ calls[k].obs = "none"
  /\ calls' = [calls EXCEPT ![k].obs =
                 IF portBound[wsPort[calls[k].h]] THEN "bound" ELSE "free"]
  /\ UNCHANGED <<cameras, nHandlers, wsPort, stream, clients, restarts,
                 startedOk, procs, portBound>>
  /\ UNCHANGED <<lastExit, overtaken>>

\* new Stream({...}) and the rest of the try block, lines 203-237
Launch(k) ==
  LET h == calls[k].h IN
  /\ calls' = [calls EXCEPT ![k] = IdleCall]
  /\ \/ \* the transcoder is launched: lines 204-232
        /\ FreeProcs # {}
        /\ LET p == CHOOSE x \in FreeProcs : \A y \in FreeProcs : x <= y IN
           /\ procs' = [procs EXCEPT ![p] = [st |-> "running", h |-> h]]
           /\ stream' = [stream EXCEPT ![h] = p]
        /\ portBound' = [portBound EXCEPT ![wsPort[h]] = TRUE]
        /\ startedOk' = [startedOk EXCEPT ![h] = TRUE]
     \/ \* new Stream throws: the catch block, lines 233-237
        /\ stream' = [stream EXCEPT ![h] = 0]
        /\ UNCHANGED <<procs, portBound, startedOk>>

\* waitForPortRelease after a poll that found the port bound: the budget
\* (Date.now() - startTime < maxWaitMs) either allows one more poll after the
\* 200 ms sleep, or is spent. Time is not counted: both are possible.
PollAgain == {TRUE, FALSE}

\* a start that takes the port for free whatever its check observed
PortObservedAny(k) == TRUE

\* the result of the call's last isPortAvailable(wsPort): lines 163 and 194-195
PortObservedFree(k) == calls[k].obs = "free"

\* startStream resumes in waitForPortRelease(wsPort, 3000), lines 183-189
ResumeWait3(k) ==
  /\ calls[k].pc = "w3"
  /\ calls[k].obs # "none"
  /\ IF PortObservedFree(k)
     THEN calls' = [calls EXCEPT ![k] = [@ EXCEPT !.pc = "ck", !.obs = "none"]]
     ELSE \E again \in PollAgain :
            IF again
            THEN calls' = [calls EXCEPT ![k] = [@ EXCEPT !.obs = "none"]]
            ELSE \* line 185: throw before the try block
                 calls' = [calls EXCEPT ![k] = IdleCall]
  /\ UNCHANGED <<cameras, nHandlers, wsPort, stream, clients, restarts,
                 startedOk, procs, portBound>>
  /\ UNCHANGED lastExit
  /\ overtaken' = [k2 \in CallIds |-> overtaken[k2] /\ calls'[k2].pc # "idle"]

\* startStream resumes after isPortAvailable(wsPort), lines 194-201
ResumeCheck(k) ==
  /\ calls[k].pc = "ck"
  /\ calls[k].obs # "none"
  /\ IF PortObservedFree(k)
     THEN Launch(k)
     ELSE /\ calls' = [calls EXCEPT ![k] = [@ EXCEPT !.pc = "w5", !.obs = "none"]]
          /\ UNCHANGED <<stream, startedOk, procs, portBound>>
  /\ UNCHANGED <<cameras, nHandlers, wsPort, clients, restarts>>
  /\ UNCHANGED lastExit
  /\ overtaken' = [k2 \in CallIds |-> overtaken[k2] /\ calls'[k2].pc # "idle"]

\* startStream resumes in waitForPortRelease(wsPort, 5000), lines 197-200
ResumeWait5(k) ==
  /\ calls[k].pc = "w5"
  /\ calls[k].obs # "none"
  /\ IF PortObservedFree(k)
     THEN Launch(k)
     ELSE \E again \in PollAgain :
            IF again
            THEN /\ calls' = [calls EXCEPT ![k] = [@ EXCEPT !.obs = "none"]]
                 /\ UNCHANGED <<stream, startedOk, procs, portBound>>
            ELSE \* line 199 throws inside the try block: the catch block, lines 233-237
                 /\ calls' = [calls EXCEPT ![k] = IdleCall]
                 /\ stream' = [stream EXCEPT ![calls[k].h] = 0]
                 /\ UNCHANGED <<startedOk, procs, portBound>>
  /\ UNCHANGED <<cameras, nHandlers, wsPort, clients, restarts>>
  /\ UNCHANGED lastExit
  /\ overtaken' = [k2 \in CallIds |-> overtaken[k2] /\ calls'[k2].pc # "idle"]

\* stopStream() without its `if (this.stream)` guard on what it terminates:
\* every transcoder the handler ever launched is stopped, tracked or not.
stopStreamUnguarded(h) ==
  /\ procs' = [p \in ProcIds |->
                 IF procs[p].h = h /\ procs[p].st = "running"
                 THEN [procs[p] EXCEPT !.st = "killed"] ELSE procs[p]]
  /\ stream' = [stream EXCEPT ![h] = 0]
  /\ startedOk' = [startedOk EXCEPT ![h] = FALSE]

\* stopStream(), lines 243-254 (stream.stop() terminates the transcoder; the
\* catch block leaves the handler in the same state)
stopStream(h) ==
  /\ procs' = StoppedProcs(h)
  /\ stream' = [stream EXCEPT ![h] = 0]
  /\ startedOk' = [startedOk EXCEPT ![h] = FALSE]

\* GET .../stream/rtsp/stop: resolveCamera, then rtsp.stopStream()
StopRtspStream(id) ==
  /\ cameras[id] # 0
  /\ stopStream(cameras[id])
  /\ UNCHANGED <<cameras, nHandlers, wsPort, clients, restarts, portBound, calls>>
  /\ UNCHANGED lastExit
  /\ overtaken' = [k \in CallIds |->
                     overtaken[k] \/ (calls[k].pc # "idle" /\ calls[k].h = cameras[id])]

\* a handler that restarts whether or not a client is interested
RestartWantedAlways(h) == TRUE

\* lines 216 and 219: this.clients.size > 0
RestartWanted(h) == clients[h] > 0

\* stream.on('exit'), lines 211-224
ExitEvent(p) ==
  LET h == procs[p].h IN
  /\ procs[p].st \in {"running", "killed"}
  /\ RestartWanted(h) => restarts[h] < MaxRestarts
  /\ procs' = [procs EXCEPT ![p] = NoProc]
  /\ stream' = [stream EXCEPT ![h] = 0]
  /\ startedOk' = [startedOk EXCEPT ![h] = FALSE]
  /\ restarts' = [restarts EXCEPT ![h] = IF RestartWanted(h) THEN @ + 1 ELSE @]
  /\ lastExit' = [lastExit EXCEPT ![h] = IF RestartWanted(h) THEN "wanted" ELSE "idle"]
  /\ UNCHANGED <<cameras, nHandlers, wsPort, clients, portBound, calls, overtaken>>

\* a stopped transcoder goes away without an exit event reaching the handler
Reaped(p) ==
  /\ procs[p].st = "killed"
  /\ procs' = [procs EXCEPT ![p] = NoProc]
  /\ UNCHANGED <<cameras, nHandlers, wsPort, stream, clients, restarts,
                 startedOk, portBound, calls>>
  /\ UNCHANGED <<lastExit, overtaken>>

\* stream.on('error'), lines 227-230
ErrorEvent(p) ==
  /\ procs[p].st = "running"
  /\ stream' = [stream EXCEPT ![procs[p].h] = 0]
  /\ startedOk' = [startedOk EXCEPT ![procs[p].h] = FALSE]
  /\ UNCHANGED <<cameras, nHandlers, wsPort, clients, restarts, procs,
                 portBound, calls>>
  /\ UNCHANGED <<lastExit, overtaken>>

\* a restart timer that starts the stream without looking at the clients
RestartTimerUnchecked(h) ==
  /\ restarts[h] > 0
  /\ restarts' = [restarts EXCEPT ![h] = @ - 1]
  /\ BeginStart(h)
  /\ UNCHANGED <<cameras, nHandlers, wsPort, clients, portBound>>
  /\ UNCHANGED <<lastExit, overtaken>>

\* the setTimeout callback of the exit handler, lines 218-222
RestartTimer(h) ==
  /\ restarts[h] > 0
  /\ restarts' = [restarts EXCEPT ![h] = @ - 1]
  /\ IF RestartWanted(h)
     THEN BeginStart(h)
     ELSE UNCHANGED <<stream, startedOk, procs, calls>>
  /\ UNCHANGED <<cameras, nHandlers, wsPort, clients, portBound>>
  /\ UNCHANGED <<lastExit, overtaken>>

\* the collaborator that owns the client sockets adds to / removes from this.clients
ClientConnect(h) ==
  /\ h <= nHandlers
  /\ clients[h] < MaxClients
  /\ clients' = [clients EXCEPT ![h] = @ + 1]
  /\ UNCHANGED <<cameras, nHandlers, wsPort, stream, restarts, startedOk,
                 procs, portBound, calls>>
  /\ UNCHANGED <<lastExit, overtaken>>

ClientDisconnect(h) ==
  /\ clients[h] > 0
  /\ clients' = [clients EXCEPT ![h] = @ - 1]
  /\ UNCHANGED <<cameras, nHandlers, wsPort, stream, restarts, startedOk,
                 procs, portBound, calls>>
  /\ UNCHANGED <<lastExit, overtaken>>

\* the operating system releases a port no running transcoder session holds
PortRelease(port) ==
  /\ portBound[port]
  /\ \A p \in ProcIds : procs[p].st = "running" => wsPort[procs[p].h] # port
  /\ portBound' = [portBound EXCEPT ![port] = FALSE]
  /\ UNCHANGED <<cameras, nHandlers, wsPort, stream, clients, restarts,
                 startedOk, procs, calls>>
  /\ UNCHANGED <<lastExit, overtaken>>

\* the error of getCameraOrThrow: Error(`Camera '${cameraId}' not found`)
CameraNotFound == 0

\* CameraManager.getCameraOrThrow(cameraId), lines 389-395: the runtime of the
\* id (the index of its handler), or the error
getCameraOrThrow(id) == IF cameras[id] = 0 THEN CameraNotFound ELSE cameras[id]

\* CameraManager.listCameras(), lines 399-401
listCameras == {id \in CamIds : cameras[id] # 0}

\* a registry that keeps the runtime an id was first registered with
registerCameraKeepFirst(id, port) ==
  /\ nHandlers < MaxHandlers
  /\ nHandlers' = nHandlers + 1
  /\ cameras' = [cameras EXCEPT ![id] = IF @ # 0 THEN @ ELSE nHandlers + 1]
  /\ wsPort' = [wsPort EXCEPT ![nHandlers + 1] = port]
  /\ UNCHANGED <<stream, clients, restarts, startedOk, procs, portBound, calls>>
  /\ UNCHANGED <<lastExit, overtaken>>

\* CameraManager.registerCamera(cfg), lines 331-384: a new handler for the id
registerCamera(id, port) ==
  /\ nHandlers < MaxHandlers
  /\ nHandlers' = nHandlers + 1
  /\ cameras' = [cameras EXCEPT ![id] = nHandlers + 1]
  /\ wsPort' = [wsPort EXCEPT ![nHandlers + 1] = port]
  /\ UNCHANGED <<stream, clients, restarts, startedOk, procs, portBound, calls>>
  /\ UNCHANGED <<lastExit, overtaken>>

\* a config that carries neither id nor cameraId
NoId == "none"

\* registerCamera, line 332: const id = cfg.id || cfg.cameraId || 'default'.
\* The id is never empty, so the throw of lines 333-335 is not reached.
cameraIdOf(cfgId) == IF cfgId = NoId THEN "default" ELSE cfgId

\* POST /api/cameras, server.js lines 213-224, with a body that has an ip:
\* cameraManager.registerCamera(cfg)
PostCameras(cfgId, port) == registerCamera(cameraIdOf(cfgId), port)

\* the registry and the routes that look a camera up, with the calls they
\* start: POST /api/cameras, GET .../stream/rtsp/start and .../stop
NextLookup ==
  \/ \E cfgId \in CamIds \cup {NoId}, port \in Ports : PostCameras(cfgId, port) /\ UNCHANGED <<snapVars, mjpegVars, shutdownVars, launchVars>>
  \/ \E id \in CamIds : StartRtspStream(id) /\ UNCHANGED <<snapVars, mjpegVars, shutdownVars, launchVars>>
  \/ \E id \in CamIds : StopRtspStream(id) /\ UNCHANGED <<snapVars, mjpegVars, shutdownVars, launchVars>>
  \/ \E k \in CallIds : ProbePort(k) /\ UNCHANGED <<snapVars, mjpegVars, shutdownVars, launchVars>>
  \/ \E k \in CallIds : ResumeWait3(k) /\ UNCHANGED <<snapVars, mjpegVars, shutdownVars, launchVars>>
  \/ \E k \in CallIds : ResumeCheck(k) /\ UNCHANGED <<snapVars, mjpegVars, shutdownVars, launchVars>>
  \/ \E k \in CallIds : ResumeWait5(k) /\ UNCHANGED <<snapVars, mjpegVars, shutdownVars, launchVars>>

\* the handlers as src/ runs them: nothing in src/ adds to this.clients
NextRtsp ==
  \/ \E id \in CamIds : StartRtspStream(id) /\ UNCHANGED <<snapVars, mjpegVars, shutdownVars, launchVars>>
  \/ \E id \in CamIds : StopRtspStream(id) /\ UNCHANGED <<snapVars, mjpegVars, shutdownVars, launchVars>>
  \/ \E k \in CallIds : ProbePort(k) /\ UNCHANGED <<snapVars, mjpegVars, shutdownVars, launchVars>>
  \/ \E k \in CallIds : ResumeWait3(k) /\ UNCHANGED <<snapVars, mjpegVars, shutdownVars, launchVars>>
  \/ \E k \in CallIds : ResumeCheck(k) /\ UNCHANGED <<snapVars, mjpegVars, shutdownVars, launchVars>>
  \/ \E k \in CallIds : ResumeWait5(k) /\ UNCHANGED <<snapVars, mjpegVars, shutdownVars, launchVars>>
  \/ \E p \in ProcIds : ExitEvent(p) /\ UNCHANGED <<snapVars, mjpegVars, shutdownVars, launchVars>>
  \/ \E p \in ProcIds : Reaped(p) /\ UNCHANGED <<snapVars, mjpegVars, shutdownVars, launchVars>>
  \/ \E p \in ProcIds : ErrorEvent(p) /\ UNCHANGED <<snapVars, mjpegVars, shutdownVars, launchVars>>
  \/ \E port \in Ports : PortRelease(port) /\ UNCHANGED <<snapVars, mjpegVars, shutdownVars, launchVars>>

\* with the collaborator that tracks the interested clients, and the restarts
NextClients ==
  \/ NextRtsp
  \/ \E h \in Handlers : RestartTimer(h) /\ UNCHANGED <<snapVars, mjpegVars, shutdownVars, launchVars>>
  \/ \E h \in Handlers : ClientConnect(h) /\ UNCHANGED <<snapVars, mjpegVars, shutdownVars, launchVars>>
  \/ \E h \in Handlers : ClientDisconnect(h) /\ UNCHANGED <<snapVars, mjpegVars, shutdownVars, launchVars>>

\* the registry as well: cameras are registered and re-registered
NextRegistry ==
  \/ NextRtsp
  \/ \E id \in CamIds, port \in Ports : registerCamera(id, port) /\ UNCHANGED <<snapVars, mjpegVars, shutdownVars, launchVars>>

\* ---------------------------------------------------- snapshot source and cache

SnapshotEndpoints == 1..NumSnapshotEndpoints
Outcomes == {"jpeg", "invalid", "error"}   \* 200 + JPEG marker; 200, no marker; request raised
TimeSteps == {DegradedIntervalMs, FetchTimeoutMs}
AgeCap == StaleMs + FetchTimeoutMs + SNAPSHOT_INTERVAL_MS
Min(a, b) == IF a < b THEN a ELSE b

IdleFetch(c, err) == [pc |-> "idle", c |-> c, i |-> 0, lastError |-> err, elapsed |-> 0]

InitSnap(cam) ==
  /\ snapCam = cam
  /\ latestSnapshot = "null"
  /\ snapshotAge = AgeCap
  /\ isRefreshing = FALSE
  /\ consecutiveFailures = 0
  /\ refreshInterval = IF cam = "default" THEN SNAPSHOT_INTERVAL_MS ELSE 0
  /\ timerController = IF cam = "default" THEN 1 ELSE 0
  /\ liveTimers = IF cam = "default" THEN 1 ELSE 0
  /\ currentIntervalMs = SNAPSHOT_INTERVAL_MS
  /\ refreshCalls = 0
  /\ reqWaiting = FALSE
  /\ resp = [kind |-> "none", seq |-> 0]
  /\ workingSnapshotEndpoint = [c \in Handlers |-> 0]
  /\ snapshotEndpointFailCount = [c \in Handlers |-> 0]
  /\ fetch = IdleFetch(0, 0)
  /\ attempts = <<>>
  /\ startedCached = FALSE
  /\ fetchResult = "none"
  /\ everSucceeded = [c \in Handlers |-> FALSE]
  /\ cachedFailStreak = [c \in Handlers |-> 0]
  /\ frameController = 0

\* a rescheduling that keeps the interval it finds
startSnapshotRefreshKeep(c, intervalMs) ==
  UNCHANGED <<currentIntervalMs, refreshInterval, timerController, liveTimers>>

\* a rescheduling that leaves the previous timer running
ClearPreviousSkipped == liveTimers

\* startSnapshotRefresh, server.js lines 332-334: if (state.refreshInterval)
\* clearInterval(state.refreshInterval); the timers left live afterwards
ClearPrevious == IF refreshInterval # 0 THEN liveTimers - 1 ELSE liveTimers

\* startSnapshotRefresh(cameraId, controller, intervalMs), server.js lines 330-337
startSnapshotRefresh(c, intervalMs) ==
  /\ currentIntervalMs' = intervalMs
  /\ refreshInterval' = intervalMs
  /\ timerController' = c
  /\ liveTimers' = ClearPrevious + 1

\* controller.getSnapshot(), lines 110-115 and 139-142: up to the first request
BeginGetSnapshot(c) ==
  /\ fetch' = IF workingSnapshotEndpoint[c] # 0
              THEN [pc |-> "cached", c |-> c, i |-> 0, lastError |-> 0, elapsed |-> 0]
              ELSE [pc |-> "disc", c |-> c, i |-> 1, lastError |-> 0, elapsed |-> 0]
  /\ attempts' = <<>>
  /\ startedCached' = (workingSnapshotEndpoint[c] # 0)

\* a refreshSnapshot that does not look at the flag
RefreshInFlightIgnored == FALSE

\* refreshSnapshot(), server.js lines 342-344: if (state.isRefreshing) return
RefreshInFlight == isRefreshing

\* refreshSnapshot(cameraId, controller), server.js lines 340-348, past the
\* isRefreshing guard
BeginRefresh(c) ==
  /\ ~RefreshInFlight
  /\ isRefreshing' = TRUE
  /\ refreshCalls' = refreshCalls + 1
  /\ BeginGetSnapshot(c)

\* the response of the snapshot route, server.js lines 399-415
Response(snapshot) ==
  [kind |-> IF snapshot = "null" THEN "error" ELSE "frame", seq |-> 1 - resp.seq]

\* the request that awaited refreshSnapshot continues, server.js lines 397-415
RespondAfterRefresh ==
  IF reqWaiting
  THEN /\ resp' = Response(latestSnapshot')
       /\ reqWaiting' = FALSE
  ELSE UNCHANGED <<resp, reqWaiting>>

\* a refresh that returns without touching the flag
ReleaseFlagSkipped == UNCHANGED isRefreshing

\* refreshSnapshot(), server.js lines 375-377: finally { state.isRefreshing = false }
ReleaseFlag == isRefreshing' = FALSE

\* a success path that resets the counter and leaves the timer as it is
RestoreNeededNever == FALSE

\* refreshSnapshot(), server.js lines 353-355: the counter is positive and
\* state.currentIntervalMs !== SNAPSHOT_INTERVAL_MS
RestoreNeeded == consecutiveFailures > 0 /\ currentIntervalMs # SNAPSHOT_INTERVAL_MS

\* refreshSnapshot(), server.js lines 349-359 and 375-377: getSnapshot returned
RefreshSucceeded ==
  /\ latestSnapshot' = "frame"
  /\ snapshotAge' = 0
  /\ frameController' = fetch.c
  /\ consecutiveFailures' = 0
  /\ IF RestoreNeeded
     THEN startSnapshotRefresh(fetch.c, SNAPSHOT_INTERVAL_MS)
     ELSE UNCHANGED <<currentIntervalMs, refreshInterval, timerController, liveTimers>>
  /\ ReleaseFlag
  /\ refreshCalls' = refreshCalls - 1
  /\ RespondAfterRefresh

\* a catch block that discards the stored frame
FailureDropsFrame ==
  /\ latestSnapshot' = "null"
  /\ UNCHANGED <<snapshotAge, frameController>>

\* refreshSnapshot(), server.js lines 360-374: the catch block assigns neither
\* state.latestSnapshot nor state.lastSnapshotTime
FailureKeepsFrame ==
  UNCHANGED <<latestSnapshot, snapshotAge, frameController>>

\* refreshSnapshot(), server.js lines 360-377: getSnapshot raised
RefreshFailed ==
  /\ consecutiveFailures < MaxFailures
  /\ consecutiveFailures' = consecutiveFailures + 1
  /\ IF consecutiveFailures + 1 = MAX_CONSECUTIVE_FAILURES
        /\ currentIntervalMs = SNAPSHOT_INTERVAL_MS
     THEN startSnapshotRefresh(fetch.c, DegradedIntervalMs)
     ELSE UNCHANGED <<currentIntervalMs, refreshInterval, timerController, liveTimers>>
  /\ ReleaseFlag
  /\ refreshCalls' = refreshCalls - 1
  /\ FailureKeepsFrame
  /\ RespondAfterRefresh

\* the setInterval callback, server.js line 336: refreshSnapshot(cameraId, controller)
\* with the controller the timer was created for
TimerTick ==
  /\ refreshInterval # 0
  /\ IF RefreshInFlight
     THEN UNCHANGED <<isRefreshing, refreshCalls, fetch, attempts, startedCached>>
     ELSE BeginRefresh(timerController)
  /\ UNCHANGED <<snapCam, latestSnapshot, snapshotAge, consecutiveFailures,
                 refreshInterval, timerController, liveTimers, currentIntervalMs, reqWaiting, resp,
                 workingSnapshotEndpoint, snapshotEndpointFailCount,
                 fetchResult, everSucceeded, cachedFailStreak, frameController>>

\* a route that refreshes on every request
CacheStaleAlways == TRUE

\* the snapshot route, server.js line 395:
\* !state.latestSnapshot || Date.now() - state.lastSnapshotTime > 300
CacheStale == latestSnapshot = "null" \/ snapshotAge > StaleMs

\* GET .../snapshot, server.js lines 389-416: resolveCamera, then up to the
\* response or the await
SnapshotRequest ==
  /\ cameras[snapCam] # 0
  /\ IF CacheStale
     THEN IF RefreshInFlight
          THEN \* refreshSnapshot returns at once
               /\ resp' = Response(latestSnapshot)
               /\ UNCHANGED <<isRefreshing, refreshCalls, fetch, attempts,
                              startedCached, reqWaiting>>
          ELSE /\ BeginRefresh(cameras[snapCam])
               /\ reqWaiting' = TRUE
               /\ UNCHANGED resp
     ELSE /\ resp' = Response(latestSnapshot)
          /\ UNCHANGED <<isRefreshing, refreshCalls, fetch, attempts,
                         startedCached, reqWaiting>>
  /\ UNCHANGED <<snapCam, latestSnapshot, snapshotAge, consecutiveFailures,
                 refreshInterval, timerController, liveTimers, currentIntervalMs,
                 workingSnapshotEndpoint, snapshotEndpointFailCount, fetchResult,
                 everSucceeded, cachedFailStreak, frameController>>

\* getSnapshot(), lines 113-137: the request to the cached endpoint completes
CachedResult(out) ==
  LET c == fetch.c
      streak == [cachedFailStreak EXCEPT ![c] = Min(@ + 1, maxFailuresBeforeRetry)] IN
  /\ fetch.pc = "cached"
  /\ IF out = "jpeg"
     THEN \* lines 121-126: return buffer
          /\ snapshotEndpointFailCount' = [snapshotEndpointFailCount EXCEPT ![c] = 0]
          /\ fetch' = IdleFetch(c, 0)
          /\ fetchResult' = "frame"
          /\ everSucceeded' = [everSucceeded EXCEPT ![c] = TRUE]
          /\ cachedFailStreak' = [cachedFailStreak EXCEPT ![c] = 0]
          /\ RefreshSucceeded
          /\ UNCHANGED workingSnapshotEndpoint
     ELSE /\ IF out = "error"
             THEN \* lines 128-136: the catch block
                  IF snapshotEndpointFailCount[c] + 1 >= maxFailuresBeforeRetry
                  THEN /\ workingSnapshotEndpoint' = [workingSnapshotEndpoint EXCEPT ![c] = 0]
                       /\ snapshotEndpointFailCount' = [snapshotEndpointFailCount EXCEPT ![c] = 0]
                       /\ cachedFailStreak' = streak
                  ELSE /\ snapshotEndpointFailCount' = [snapshotEndpointFailCount EXCEPT ![c] = @ + 1]
                       /\ cachedFailStreak' = streak
                       /\ UNCHANGED workingSnapshotEndpoint
             ELSE \* status 200 without the JPEG marker: nothing is raised
                  /\ cachedFailStreak' = streak
                  /\ UNCHANGED <<workingSnapshotEndpoint, snapshotEndpointFailCount>>
          \* line 139: on to the discovery loop
          /\ fetch' = [pc |-> "disc", c |-> c, i |-> 1, lastError |-> 0, elapsed |-> 0]
          /\ UNCHANGED <<latestSnapshot, snapshotAge, isRefreshing, consecutiveFailures,
                         refreshInterval, timerController, liveTimers, currentIntervalMs,
                         refreshCalls, reqWaiting, resp, fetchResult, everSucceeded,
                         frameController>>
  /\ UNCHANGED <<snapCam, attempts, startedCached>>

\* the discovery loop that stops at the first failing candidate
MoreCandidatesNone(i) == FALSE

\* getSnapshot(), line 140: for (const endpoint of this.snapshotEndpoints)
MoreCandidates(i) == i < NumSnapshotEndpoints

\* getSnapshot(), lines 140-173: the request to candidate fetch.i completes
DiscoveryResult(out) ==
  LET c == fetch.c IN
  /\ fetch.pc = "disc"
  /\ attempts' = Append(attempts, [ep |-> fetch.i, out |-> out])
  /\ IF out = "jpeg"
     THEN \* lines 148-157: cache the candidate, return buffer
          /\ workingSnapshotEndpoint' = [workingSnapshotEndpoint EXCEPT ![c] = fetch.i]
          /\ snapshotEndpointFailCount' = [snapshotEndpointFailCount EXCEPT ![c] = 0]
          /\ fetch' = IdleFetch(c, 0)
          /\ fetchResult' = "frame"
          /\ everSucceeded' = [everSucceeded EXCEPT ![c] = TRUE]
          /\ cachedFailStreak' = [cachedFailStreak EXCEPT ![c] = 0]
          /\ RefreshSucceeded
     ELSE LET err == IF out = "error" THEN fetch.i ELSE fetch.lastError IN
          /\ UNCHANGED <<workingSnapshotEndpoint, snapshotEndpointFailCount,
                         everSucceeded, cachedFailStreak>>
          /\ IF MoreCandidates(fetch.i)
             THEN \* lines 159-162: continue
                  /\ fetch' = [pc |-> "disc", c |-> c, i |-> fetch.i + 1,
                              lastError |-> err, elapsed |-> 0]
                  /\ UNCHANGED <<latestSnapshot, snapshotAge, isRefreshing,
                                 consecutiveFailures, refreshInterval, timerController, liveTimers,
                                 currentIntervalMs, refreshCalls, reqWaiting, resp,
                                 fetchResult, frameController>>
             ELSE \* lines 165-172: throw 'Snapshot endpoint not found. Last error: ...'
                  /\ fetch' = IdleFetch(c, err)
                  /\ fetchResult' = "notfound"
                  /\ RefreshFailed
  /\ UNCHANGED <<snapCam, startedCached>>

\* time passes; a request in flight ends within its timeout (timeout: 8000)
AdvanceTime(d) ==
  /\ IF fetch.pc = "idle"
     THEN snapshotAge < AgeCap /\ UNCHANGED fetch
     ELSE /\ fetch.elapsed + d <= FetchTimeoutMs
          /\ fetch' = [fetch EXCEPT !.elapsed = fetch.elapsed + d]
  /\ snapshotAge' = Min(snapshotAge + d, AgeCap)
  /\ UNCHANGED <<snapCam, latestSnapshot, isRefreshing, consecutiveFailures,
                 refreshInterval, timerController, liveTimers, currentIntervalMs, refreshCalls,
                 reqWaiting, resp, workingSnapshotEndpoint, snapshotEndpointFailCount,
                 snapHistory>>

NextSnapshot ==
  \/ TimerTick /\ UNCHANGED <<rtspVars, mjpegVars, shutdownVars, launchVars>>
  \/ SnapshotRequest /\ UNCHANGED <<rtspVars, mjpegVars, shutdownVars, launchVars>>
  \/ \E out \in Outcomes : CachedResult(out) /\ UNCHANGED <<rtspVars, mjpegVars, shutdownVars, launchVars>>
  \/ \E out \in Outcomes : DiscoveryResult(out) /\ UNCHANGED <<rtspVars, mjpegVars, shutdownVars, launchVars>>
  \/ \E d \in TimeSteps : AdvanceTime(d) /\ UNCHANGED <<rtspVars, mjpegVars, shutdownVars, launchVars>>

\* the snapshot cache while the camera is registered again
NextReregister ==
  \/ NextSnapshot
  \/ registerCamera(snapCam, DefaultWsPort) /\ UNCHANGED <<snapVars, mjpegVars, shutdownVars, launchVars>>

\* ------------------------------------------------------------- MJPEG proxy

MjpegPaths == 1..NumMjpegPaths
ProxyCallIds == 1..MaxProxyCalls
MaxFailStreak == 3

IdleProxyCall == [pc |-> "idle", i |-> 0, headersSent |-> FALSE, result |-> "none"]

InitMjpeg ==
  /\ workingMJPEGUrl = 0
  /\ proxyCalls = [k \in ProxyCallIds |-> IdleProxyCall]
  /\ probeOpen = [k \in ProxyCallIds |-> FALSE]
  /\ mjpegFound = FALSE
  /\ mjpegFailStreak = 0

Probing == {k \in ProxyCallIds : proxyCalls[k].pc = "probing"}

UpstreamFailed == mjpegFailStreak' = Min(mjpegFailStreak + 1, MaxFailStreak)

\* the route's catch, server.js lines 298-308, after proxyStream rejected
Rejected(k, status) ==
  proxyCalls' = [proxyCalls EXCEPT ![k] =
                   [IdleProxyCall EXCEPT !.result = status]]

\* GET .../stream/mjpeg, server.js lines 294-297, and proxyStream, lines 116-134,
\* up to the first request: a probe if nothing is cached, else the stream request
ProxyStream(k) ==
  /\ proxyCalls[k].pc = "idle"
  /\ proxyCalls' = [proxyCalls EXCEPT ![k] =
       IF workingMJPEGUrl = 0
       THEN [pc |-> "probing", i |-> 1, headersSent |-> FALSE, result |-> "none"]
       ELSE [pc |-> "connecting", i |-> 0, headersSent |-> FALSE, result |-> "none"]]
  /\ UNCHANGED <<workingMJPEGUrl, mjpegFound, mjpegFailStreak>>
  /\ UNCHANGED probeOpen

\* a discovery that caches the head of the list whichever candidate answered
FoundUrlFirst(k) == 1

\* findWorkingMJPEGUrl, lines 92-95: the url of the iteration that succeeded
FoundUrl(k) == proxyCalls[k].i

\* findWorkingMJPEGUrl, lines 53-102: the probe of candidate i completes; then
\* proxyStream, lines 120-134
ProbeResult(k, success) ==
  /\ proxyCalls[k].pc = "probing"
  /\ IF success
     THEN \* lines 92-96, then proxyHttpStream(getStreamUrl())
          /\ workingMJPEGUrl' = FoundUrl(k)
          \* lines 69-82: the probe's request is not destroyed; its response
          \* is read and discarded for as long as the camera streams
          /\ probeOpen' = [probeOpen EXCEPT ![k] = TRUE]
          /\ mjpegFound' = TRUE
          /\ mjpegFailStreak' = 0
          /\ proxyCalls' = [proxyCalls EXCEPT ![k].pc = "connecting", ![k].i = 0]
     ELSE /\ UNCHANGED <<workingMJPEGUrl, probeOpen, mjpegFound, mjpegFailStreak>>
          /\ IF proxyCalls[k].i < NumMjpegPaths
             THEN proxyCalls' = [proxyCalls EXCEPT ![k].i = proxyCalls[k].i + 1]
             ELSE \* lines 102, 121-127: res.status(404)
                  Rejected(k, "404")

\* proxyHttpStream, lines 172-206: the response callback
UpstreamResponse(k, statusCode) ==
  /\ proxyCalls[k].pc = "connecting"
  /\ IF statusCode = 200
     THEN /\ proxyCalls' = [proxyCalls EXCEPT ![k].pc = "relaying"]
          /\ mjpegFailStreak' = 0
     ELSE \* lines 174-179: destroy, reject; the cached URL stays
          /\ Rejected(k, "500")
          /\ UpstreamFailed
  /\ UNCHANGED <<workingMJPEGUrl, mjpegFound>>
  /\ UNCHANGED probeOpen

\* proxyRes.pipe(res), line 199: the first chunk sends the headers
UpstreamData(k) ==
  /\ proxyCalls[k].pc = "relaying"
  /\ proxyCalls' = [proxyCalls EXCEPT ![k].headersSent = TRUE]
  /\ UNCHANGED <<workingMJPEGUrl, mjpegFound, mjpegFailStreak>>
  /\ UNCHANGED probeOpen

\* proxyRes.on('error'), lines 191-197
onProxyResError(k) ==
  IF ~proxyCalls[k].headersSent
  THEN /\ workingMJPEGUrl' = 0
       /\ Rejected(k, "500")
  ELSE \* nothing is done; the client response is left open
       /\ proxyCalls' = [proxyCalls EXCEPT ![k].pc = "stalled"]
       /\ UNCHANGED workingMJPEGUrl

\* the upstream response fails while it is being relayed
ProxyResError(k) ==
  /\ proxyCalls[k].pc = "relaying"
  /\ onProxyResError(k)
  /\ UpstreamFailed
  /\ UNCHANGED mjpegFound
  /\ UNCHANGED probeOpen

\* proxyRes.on('end'), lines 201-205, with pipe(res, { end: false })
ProxyResEnd(k) ==
  /\ proxyCalls[k].pc = "relaying"
  /\ proxyCalls' = [proxyCalls EXCEPT ![k].pc = "stalled",
                      ![k].result = IF proxyCalls[k].headersSent THEN "none" ELSE "resolved"]
  /\ UNCHANGED <<workingMJPEGUrl, mjpegFound, mjpegFailStreak>>
  /\ UNCHANGED probeOpen

\* proxyReq.on('error'), lines 208-214: the request fails before a response
ProxyReqError(k) ==
  /\ proxyCalls[k].pc = "connecting"
  /\ workingMJPEGUrl' = 0
  /\ Rejected(k, "500")
  /\ UpstreamFailed
  /\ UNCHANGED mjpegFound
  /\ UNCHANGED probeOpen

\* proxyReq.on('timeout'), lines 216-223: the socket has been idle for 15 s
ProxyReqTimeout(k) ==
  /\ proxyCalls[k].pc \in {"connecting", "relaying"}
  /\ workingMJPEGUrl' = 0
  /\ IF ~proxyCalls[k].headersSent
     THEN \* the message contains 'not available': the route answers 404
          Rejected(k, "404")
     ELSE proxyCalls' = [proxyCalls EXCEPT ![k].pc = "stalled"]
  /\ UpstreamFailed
  /\ UNCHANGED mjpegFound
  /\ UNCHANGED probeOpen

\* req.on('close'), lines 225-227: proxyReq.destroy(), which raises 'error' on
\* the request before a response and on the response after it
ClientClose(k) ==
  /\ proxyCalls[k].pc \in {"connecting", "relaying", "stalled"}
  /\ IF proxyCalls[k].pc = "stalled" \/ proxyCalls[k].headersSent
     THEN UNCHANGED workingMJPEGUrl
     ELSE workingMJPEGUrl' = 0
  /\ proxyCalls' = [proxyCalls EXCEPT ![k] = IdleProxyCall]
  /\ UNCHANGED <<mjpegFound, mjpegFailStreak>>
  /\ UNCHANGED probeOpen

\* the camera ends the response of a probe request that was left open
\* (findWorkingMJPEGUrl, line 81: res.on('end', () => {}))
ProbeStreamEnd(k) ==
  /\ probeOpen[k]
  /\ probeOpen' = [probeOpen EXCEPT ![k] = FALSE]
  /\ UNCHANGED <<workingMJPEGUrl, proxyCalls, mjpegFound, mjpegFailStreak>>

NextMjpeg ==
  \/ \E k \in ProxyCallIds : ProxyStream(k) /\ UNCHANGED <<rtspVars, snapVars, shutdownVars, launchVars>>
  \/ \E k \in ProxyCallIds, success \in BOOLEAN :
       ProbeResult(k, success) /\ UNCHANGED <<rtspVars, snapVars, shutdownVars, launchVars>>
  \/ \E k \in ProxyCallIds, statusCode \in {200, 404} :
       UpstreamResponse(k, statusCode) /\ UNCHANGED <<rtspVars, snapVars, shutdownVars, launchVars>>
  \/ \E k \in ProxyCallIds : UpstreamData(k) /\ UNCHANGED <<rtspVars, snapVars, shutdownVars, launchVars>>
  \/ \E k \in ProxyCallIds : ProxyResError(k) /\ UNCHANGED <<rtspVars, snapVars, shutdownVars, launchVars>>
  \/ \E k \in ProxyCallIds : ProxyResEnd(k) /\ UNCHANGED <<rtspVars, snapVars, shutdownVars, launchVars>>
  \/ \E k \in ProxyCallIds : ProxyReqError(k) /\ UNCHANGED <<rtspVars, snapVars, shutdownVars, launchVars>>
  \/ \E k \in ProxyCallIds : ProxyReqTimeout(k) /\ UNCHANGED <<rtspVars, snapVars, shutdownVars, launchVars>>
  \/ \E k \in ProxyCallIds : ClientClose(k) /\ UNCHANGED <<rtspVars, snapVars, shutdownVars, launchVars>>
  \/ \E k \in ProxyCallIds : ProbeStreamEnd(k) /\ UNCHANGED <<rtspVars, snapVars, shutdownVars, launchVars>>

\* ------------------------------------------------------------ shutdown path

MaxCleanups == 2    \* runs of cleanupAll (SIGTERM, then SIGINT)

\* cameraManager.listCameras(): the keys of the Map in insertion order; the
\* constructor registers 'default' first
CamOrder == <<"default", "cam1">>

IdleCleanup == [pc |-> "idle", i |-> 0, obs |-> "none", runs |-> 0]

InitShutdown == cleanup = IdleCleanup

\* the registered cameras that follow position i in listCameras()
LaterCameras(i) == {j \in 1..Len(CamOrder) : j > i /\ cameras[CamOrder[j]] # 0}

\* cleanupAll(), server.js lines 438-444, and rtsp.cleanup(), lines 282-289 of
\* the handler, for the camera at position j: up to the await in
\* waitForPortRelease(this.wsPort, 2000)
CleanupCamera(j) ==
  LET h == cameras[CamOrder[j]] IN
  /\ stopStream(h)
  /\ clients' = [clients EXCEPT ![h] = 0]
  /\ cleanup' = [cleanup EXCEPT !.pc = "wait", !.i = j, !.obs = "none"]
  /\ UNCHANGED <<cameras, nHandlers, wsPort, restarts, portBound, calls, lastExit, overtaken>>

\* the SIGTERM / SIGINT handler, server.js lines 455-471: cleanupAll() begins
CleanupAll ==
  /\ cleanup.pc = "idle"
  /\ cleanup.runs < MaxCleanups
  /\ LET first == LaterCameras(0) IN
     CleanupCamera(CHOOSE j \in first : \A x \in first : j <= x)
  /\ UNCHANGED snapVars

\* isPortAvailable(port): the bind attempt of cleanup's outstanding check
CleanupProbePort ==
  /\ cleanup.pc = "wait"
  /\ cleanup.obs = "none"
  /\ cleanup' = [cleanup EXCEPT !.obs =
                   IF portBound[wsPort[cameras[CamOrder[cleanup.i]]]]
                   THEN "bound" ELSE "free"]
  /\ UNCHANGED <<rtspVars, snapVars>>

\* cleanupAll(), server.js lines 445-448: clearInterval(state.refreshInterval)
clearSnapshotTimer(id) ==
  /\ IF id = snapCam
     THEN /\ refreshInterval' = 0 /\ timerController' = 0
          /\ liveTimers' = ClearPrevious
     ELSE UNCHANGED <<refreshInterval, timerController, liveTimers>>
  /\ UNCHANGED <<snapCam, latestSnapshot, snapshotAge, isRefreshing,
                 consecutiveFailures, currentIntervalMs, refreshCalls, reqWaiting,
                 resp, workingSnapshotEndpoint, snapshotEndpointFailCount, fetch,
                 snapHistory>>

\* cleanupAll resumes after cleanup()'s waitForPortRelease: the camera's timer
\* is cleared, then the next camera is cleaned up or cleanupAll returns
CleanupResume ==
  /\ cleanup.pc = "wait"
  /\ cleanup.obs # "none"
  /\ \/ \* the port is bound and the 2000 ms are not spent: poll again
        /\ cleanup.obs = "bound"
        /\ cleanup' = [cleanup EXCEPT !.obs = "none"]
        /\ UNCHANGED <<rtspVars, snapVars>>
     \/ \* the port is free, or the wait is over (its result is not looked at)
        /\ clearSnapshotTimer(CamOrder[cleanup.i])
        /\ LET rest == LaterCameras(cleanup.i) IN
           IF rest # {}
           THEN CleanupCamera(CHOOSE j \in rest : \A x \in rest : j <= x)
           ELSE /\ cleanup' = [IdleCleanup EXCEPT !.runs = cleanup.runs + 1]
                /\ UNCHANGED rtspVars

\* the transcode sessions while the process is told to shut down
NextShutdown ==
  \/ NextRtsp
  \/ CleanupAll /\ UNCHANGED <<mjpegVars, launchVars>>
  \/ CleanupProbePort /\ UNCHANGED <<mjpegVars, launchVars>>
  \/ CleanupResume /\ UNCHANGED <<mjpegVars, launchVars>>

\* ----------------------------------------------- what a session is launched with

MaxPassLen == 2     \* characters of a password

\* bitrates whose products by 1.25, 2.5 and 0.5 are exact in binary floating
\* point, in thousandths: '1.5M' (the default of server.js), '2M', '4M', ...
BaseInputs == {1500, 2000, 4000, 6000, 8000}
Units == {"M", "k"}
FpsInputs == {15, 20, 25, 30}

\* a letter, and the two characters that delimit the credentials of a URL
PassChars == {"p", ":", "@"}
Passwords == UNION {[1..n -> PassChars] : n \in 1..MaxPassLen}

NoOptions == [r |-> 0]

\* the configuration of server.js, lines 188-199: bitrate '1.5M', fps 20, a
\* password with an at-sign
InitConfig ==
  /\ bitrate = [base |-> 1500, unit |-> "M"]
  /\ fps = 20
  /\ password = <<"p", "@">>
  /\ customUrl = FALSE
  /\ ffmpegOptions = NoOptions
  /\ rtspUrl = <<>>
  /\ logLine = <<>>

InitLaunch ==
  /\ bitrate \in [base : BaseInputs, unit : Units]
  /\ fps \in FpsInputs
  /\ password \in Passwords
  /\ customUrl \in BOOLEAN
  /\ ffmpegOptions = NoOptions
  /\ rtspUrl = <<>>
  /\ logLine = <<>>

\* x.toFixed(1) of a positive x given in thousandths: the number of tenths
\* nearest to x, the larger one of two equally near
toFixed1(x) == (x + 50) \div 100

\* parseFloat of a string printed by toFixed(1), in thousandths
parseTenths(t) == t * 100

\* calculateMaxRate(), lines 63-67
calculateMaxRate ==
  [tenths |-> toFixed1((bitrate.base * 125) \div 100), unit |-> bitrate.unit]

\* calculateBufSize(), lines 72-77
calculateBufSize ==
  LET maxRate == calculateMaxRate
      base == parseTenths(maxRate.tenths) IN
  [tenths |-> toFixed1((base * 25) \div 10), unit |-> maxRate.unit]

\* calculateMinRate(), lines 82-86
calculateMinRate ==
  [tenths |-> toFixed1((bitrate.base * 5) \div 10), unit |-> bitrate.unit]

\* buildFfmpegOptions(), lines 91-132: the options that depend on the config
buildFfmpegOptions ==
  [r |-> fps, g |-> fps * 2, keyint_min |-> fps, bv |-> bitrate,
   maxrate |-> calculateMaxRate, bufsize |-> calculateBufSize,
   minrate |-> calculateMinRate]

\* startStream(), lines 203-208: new Stream({ ffmpegOptions: this.buildFfmpegOptions() })
BuildOptions ==
  /\ ffmpegOptions = NoOptions
  /\ ffmpegOptions' = buildFfmpegOptions
  /\ UNCHANGED <<bitrate, fps, password, customUrl, rtspUrl, logLine>>

\* encodeURIComponent(c) of one character
encodeURIComponent(c) == IF c = ":" THEN "%3A" ELSE IF c = "@" THEN "%40" ELSE c

UrlHead == <<"rtsp", ":", "//", "user", ":">>
UrlTail == <<"@", "host", ":", "554", "/live1s1.sdp">>

\* createRtspPatterns(), lines 27-46: the first pattern
PatternUrl == UrlHead \o [n \in 1..Len(password) |-> encodeURIComponent(password[n])] \o UrlTail

\* a URL of the caller with the password as it is
CallerUrl == UrlHead \o password \o UrlTail

\* getRTSPUrl(customUrl), lines 51-57
getRTSPUrl == IF customUrl THEN CallerUrl ELSE PatternUrl

\* the positions where /:[^:@]+@/ matches: a colon, one or more characters that
\* are neither colon nor at-sign, an at-sign
MatchEnd(url, i) ==
  {j \in (i + 2)..Len(url) :
     /\ url[j] = "@"
     /\ \A n \in (i + 1)..(j - 1) : url[n] \notin {":", "@"}}

Matches(url) == {i \in 1..Len(url) : url[i] = ":" /\ MatchEnd(url, i) # {}}

\* url.replace(/:[^:@]+@/, ':****@'), line 190: the leftmost match is replaced
MaskUrl(url) ==
  IF Matches(url) = {} THEN url
  ELSE LET i == CHOOSE x \in Matches(url) : \A y \in Matches(url) : x <= y
           j == CHOOSE x \in MatchEnd(url, i) : TRUE IN
       SubSeq(url, 1, i - 1) \o <<":", "****", "@">> \o SubSeq(url, j + 1, Len(url))

\* startStream(), lines 189-190: the URL is chosen and logged
LogStart ==
  /\ rtspUrl = <<>>
  /\ rtspUrl' = getRTSPUrl
  /\ logLine' = MaskUrl(getRTSPUrl)
  /\ UNCHANGED <<bitrate, fps, password, customUrl, ffmpegOptions>>

NextLaunch ==
  \/ BuildOptions /\ UNCHANGED <<rtspVars, snapVars, mjpegVars, shutdownVars>>
  \/ LogStart /\ UNCHANGED <<rtspVars, snapVars, mjpegVars, shutdownVars>>

\* ------------------------------------------------------------ specifications

Init == InitRegistry("default") /\ InitRtsp /\ InitSnap("default") /\ InitMjpeg /\ InitShutdown /\ InitConfig

\* the snapshot entry of any camera
InitAnyCamera ==
  \E cam \in CamIds : InitRegistry(cam) /\ InitRtsp /\ InitSnap(cam) /\ InitMjpeg /\ InitShutdown /\ InitConfig

Next == NextRtsp

Spec == Init /\ [][Next]_vars

SpecClients == Init /\ [][NextClients]_vars

SpecRegistry == Init /\ [][NextRegistry]_vars

SpecSnapshot == InitAnyCamera /\ [][NextSnapshot]_vars

SpecReregister == Init /\ [][NextReregister]_vars

SpecMjpeg == Init /\ [][NextMjpeg]_vars

SpecShutdown == Init /\ [][NextShutdown]_vars

SpecLookup == Init /\ [][NextLookup]_vars

\* a handler of any configuration
InitAnyConfig ==
  /\ InitRegistry("default") /\ InitRtsp /\ InitSnap("default") /\ InitMjpeg
  /\ InitShutdown /\ InitLaunch

SpecLaunch == InitAnyConfig /\ [][NextLaunch]_vars

\* the snapshot scheduler while the process is told to shut down: a refresh may
\* be in flight when cleanupAll runs and may complete during or after it
NextShutdownSnapshot ==
  \/ NextSnapshot
  \/ CleanupAll /\ UNCHANGED <<mjpegVars, launchVars>>
  \/ CleanupProbePort /\ UNCHANGED <<mjpegVars, launchVars>>
  \/ CleanupResume /\ UNCHANGED <<mjpegVars, launchVars>>

SpecShutdownSnapshot == Init /\ [][NextShutdownSnapshot]_vars

\* The snapshot discovery belongs to the CameraController and the MJPEG
\* discovery to the VideoStreamProxy; the two objects share no field, so the
\* steps of one are explored with the other at rest.
NextDiscovery ==
  \/ InitMjpeg /\ NextSnapshot
  \/ InitSnap(snapCam) /\ NextMjpeg

SpecDiscovery == InitAnyCamera /\ [][NextDiscovery]_vars
\* ------------------------------------------------------------------ claims

\* C1: for every camera at most one transcoder session is Starting or Running
\* at any instant: concurrent startStream calls on one camera end with exactly
\* one launched (running, not stopped) transcoder.
C1_AtMostOneSession == \A h \in Handlers : Cardinality(Running(h)) <= 1

\* C4: stopStream is idempotent: on a handler whose session is already stopped
\* it changes no state, and after any stopStream the session is stopped (so a
\* second call in a row is the no-op of the first part).
C4_StopIdempotent ==
  [][\A id \in CamIds :
       StopRtspStream(id) =>
         /\ stream'[cameras[id]] = 0
         /\ stream[cameras[id]] = 0 => UNCHANGED rtspState]_vars

\* a stop has acted (only stopStream marks a transcoder killed) and the session
\* is now stopped: the state in which a second stopStream is a no-op
C4_Witness ==
  \E h \in Handlers : \E p \in ProcIds :
    stream[h] = 0 /\ procs[p] = [st |-> "killed", h |-> h]

\* C9: after startStream completed without error and until a stop, exit or
\* error event, streamStatus reports active == true.
C9_ActiveAfterStart == \A h \in Handlers : startedOk[h] => isStreamActive(h)

\* C3: every frame the on-demand snapshot request returns was captured at most
\* the staleness threshold plus one fetch timeout ago.
C3_ServedFrameFresh ==
  [][(resp' # resp /\ resp'.kind = "frame")
       => snapshotAge' <= StaleMs + FetchTimeoutMs]_vars

\* C5: from the failure threshold on, the polling interval is the degraded one,
\* strictly larger than the default, through every further failure; a successful
\* refresh leaves the counter at 0 and the interval at the default.
C5_Backoff ==
  /\ consecutiveFailures >= MAX_CONSECUTIVE_FAILURES
       => /\ currentIntervalMs = DegradedIntervalMs
          /\ refreshInterval = DegradedIntervalMs
          /\ currentIntervalMs > SNAPSHOT_INTERVAL_MS
  /\ (fetch.pc = "idle" /\ fetchResult = "frame")
       => /\ consecutiveFailures = 0
          /\ currentIntervalMs = SNAPSHOT_INTERVAL_MS

\* a camera without a startup timer polls at the default interval only after a
\* degraded period that a successful refresh has ended
C5_Witness ==
  /\ snapCam # "default"
  /\ fetch.pc = "idle" /\ fetchResult = "frame"
  /\ consecutiveFailures = 0
  /\ refreshInterval = SNAPSHOT_INTERVAL_MS
  /\ currentIntervalMs = SNAPSHOT_INTERVAL_MS

\* C6: once three consecutive fetches have failed on the cached snapshot
\* endpoint, the cached endpoint is cleared, so the next fetch starts with
\* discovery.
C6_CacheClearedAtThreshold ==
  \A c \in Handlers :
    (fetch.pc = "idle" /\ cachedFailStreak[c] >= maxFailuresBeforeRetry)
      => workingSnapshotEndpoint[c] = 0

RECURSIVE LastError(_)
LastError(as) ==
  IF as = <<>> THEN 0
  ELSE IF as[Len(as)].out = "error" THEN as[Len(as)].ep
  ELSE LastError(SubSeq(as, 1, Len(as) - 1))

\* C10: a getSnapshot on a camera for which no endpoint has ever succeeded ends
\* with 'Snapshot endpoint not found' carrying the last error raised, after every
\* candidate has been attempted once, in list order.
C10_NotFoundAfterAllCandidates ==
  (fetch.pc = "idle" /\ fetchResult # "none" /\ ~everSucceeded[fetch.c])
    => /\ fetchResult = "notfound"
       /\ ~startedCached
       /\ Len(attempts) = NumSnapshotEndpoints
       /\ \A i \in 1..Len(attempts) : attempts[i].ep = i /\ attempts[i].out # "jpeg"
       /\ fetch.lastError = LastError(attempts)

C10_Witness ==
  /\ fetch.pc = "idle"
  /\ fetchResult = "notfound"
  /\ ~everSucceeded[fetch.c]
  /\ Len(attempts) = NumSnapshotEndpoints
  /\ fetch.lastError = 1
  /\ attempts[NumSnapshotEndpoints].out = "invalid"

\* C2: for a source, no two endpoint-discovery passes run at the same time; a
\* caller that arrives during a discovery never starts a second pass.
C2_OneDiscoveryAtATime ==
  /\ Cardinality(Probing) <= 1
  /\ refreshCalls <= 1

\* C7: a discovered MJPEG endpoint stays cached, and is used without probing,
\* until three consecutive failures on it; after three it is cleared, so that
\* the list is probed again.
C7_ReuseUntilThreeFailures ==
  /\ (mjpegFound /\ workingMJPEGUrl = 0) => mjpegFailStreak >= MaxFailStreak
  /\ mjpegFailStreak >= MaxFailStreak => workingMJPEGUrl = 0

\* C8: an upstream error after relaying has begun invalidates the cached
\* MJPEG endpoint, and is reported to the caller (status 500) only if no byte
\* has been sent to the client.
C8_MidTransferErrorInvalidates ==
  [][\A k \in ProxyCallIds : ProxyResError(k) =>
       /\ workingMJPEGUrl' = 0
       /\ proxyCalls'[k].result = "500" <=> ~proxyCalls[k].headersSent]_vars

\* C11: an exit event that finds no interested client leaves the session
\* stopped and schedules no restart, and a restart timer that fires when no
\* client is interested starts nothing.
C11_NoRestartWithoutClients ==
  [][/\ \A p \in ProcIds :
          (ExitEvent(p) /\ clients[procs[p].h] = 0)
            => /\ restarts' = restarts
               /\ calls' = calls
               /\ stream'[procs[p].h] = 0
     /\ \A h \in Handlers :
          (RestartTimer(h) /\ clients[h] = 0)
            => /\ calls' = calls
               /\ procs' = procs
               /\ stream' = stream]_vars

C11_Witness ==
  \E h \in Handlers :
    /\ lastExit[h] = "idle"
    /\ clients[h] = 0
    /\ restarts[h] = 0
    /\ stream[h] = 0
    /\ Running(h) = {}

\* C12: the exit of a running transcoder while a client is interested schedules
\* exactly one restart, and the restart timer starts the stream only if a
\* client is interested when it fires.
C12_OneRestartIfClients ==
  [][/\ \A p \in ProcIds :
          (ExitEvent(p) /\ procs[p].st = "running" /\ clients[procs[p].h] > 0)
            => restarts' = [restarts EXCEPT ![procs[p].h] = @ + 1]
     /\ \A h \in Handlers :
          RestartTimer(h)
            => /\ restarts' = [restarts EXCEPT ![h] = @ - 1]
               /\ calls' # calls <=> clients[h] > 0]_vars

C12_Witness ==
  \E h \in Handlers :
    /\ lastExit[h] = "wanted"
    /\ clients[h] > 0
    /\ restarts[h] = 0
    /\ \E k \in CallIds : calls[k].h = h /\ calls[k].pc # "idle"

\* C13: a startStream call that ends without launching a transcoder (the port
\* stayed bound for the whole wait, or the launch threw) leaves the handler
\* with no active stream.
C13_FailedStartLeavesStopped ==
  [][\A k \in CallIds :
       (calls[k].pc # "idle" /\ calls'[k].pc = "idle" /\ procs' = procs)
         => stream'[calls[k].h] = 0]_vars

\* C14: at most one snapshot refresh is in flight for a camera; a timer tick
\* or an on-demand request that arrives during a refresh starts no fetch and
\* is not queued behind it.
C14_OneRefreshInFlight ==
  [][/\ refreshCalls' <= 1
     /\ ((TimerTick \/ SnapshotRequest) /\ isRefreshing)
          => UNCHANGED <<fetch, attempts, refreshCalls, isRefreshing, reqWaiting>>]_vars

\* an on-demand request was answered while the first refresh was in flight
C14_Witness ==
  /\ isRefreshing
  /\ fetchResult = "none"
  /\ resp.kind = "error"
  /\ ~reqWaiting

\* C15: the sessions of two registered cameras are independent; in particular
\* a startStream of camera b never fails on its port because a transcoder of
\* another camera a holds it.
C15_CamerasIndependent ==
  [][\A a, b \in CamIds : \A k \in CallIds :
       (/\ a # b /\ cameras[a] # 0 /\ cameras[b] # 0
        /\ calls[k].h = cameras[b]
        /\ calls[k].pc = "w5" /\ calls[k].obs = "bound" /\ calls'[k].pc = "idle")
         => ~(/\ Running(cameras[a]) # {}
              /\ wsPort[cameras[a]] = wsPort[cameras[b]]
              /\ \A p \in ProcIds : procs[p].h # cameras[b])]_vars

\* C16: once an identifier has been registered again, its snapshot cache entry
\* holds no frame fetched with the replaced controller, and no polling timer
\* keeps fetching with the replaced controller.
C16_ReregistrationInvalidates ==
  /\ latestSnapshot # "null" => frameController = cameras[snapCam]
  /\ refreshInterval # 0 => timerController = cameras[snapCam]

\* C17: only the default camera is polled in the background; the cache entry of
\* any other camera never has a live polling timer.
C17_TimerForDefaultOnly == snapCam # "default" => refreshInterval = 0

\* C18: a refresh whose fetch fails completes without raising: the flag is
\* cleared, a waiting request is answered from the stored frame, the failure
\* counter grows by one, the interval changes only at the threshold (to the
\* degraded one), and the stored frame and its age are untouched.
C18_FailureNotSurfaced ==
  [][(fetch.pc # "idle" /\ fetch'.pc = "idle" /\ fetchResult' = "notfound")
       => /\ latestSnapshot' = latestSnapshot
          /\ snapshotAge' = snapshotAge
          /\ consecutiveFailures' = consecutiveFailures + 1
          /\ ~isRefreshing'
          /\ ~reqWaiting'
          /\ reqWaiting => resp' = Response(latestSnapshot)
          /\ (refreshInterval' # refreshInterval \/ currentIntervalMs' # currentIntervalMs)
               => /\ consecutiveFailures' = MAX_CONSECUTIVE_FAILURES
                  /\ refreshInterval' = DegradedIntervalMs
                  /\ currentIntervalMs' = DegradedIntervalMs]_vars

C18_Witness ==
  /\ fetchResult = "notfound"
  /\ fetch.pc = "idle"
  /\ latestSnapshot = "frame"
  /\ consecutiveFailures = MAX_CONSECUTIVE_FAILURES
  /\ refreshInterval = DegradedIntervalMs
  /\ ~isRefreshing

\* C19: a request that finds a frame younger than the staleness bound is
\* answered with it and starts no fetch; any request starts at most one refresh;
\* while a request waits for its refresh, no step (of a further request or of
\* the timer) starts another fetch.
C19_OnDemandAtMostOneFetch ==
  [][/\ SnapshotRequest
          => /\ (latestSnapshot # "null" /\ snapshotAge < StaleMs)
                  => /\ resp' = [kind |-> "frame", seq |-> 1 - resp.seq]
                     /\ UNCHANGED <<fetch, attempts, refreshCalls, isRefreshing>>
             /\ refreshCalls' <= refreshCalls + 1
             /\ refreshCalls' <= 1
     /\ reqWaiting => /\ refreshCalls' <= refreshCalls
                      /\ attempts' = attempts \/ attempts' = Append(attempts, attempts'[Len(attempts')])]_vars

\* a second request was answered while the first still waits for the only fetch
C19_Witness ==
  /\ reqWaiting
  /\ refreshCalls = 1
  /\ fetchResult = "none"
  /\ resp.seq = 1

\* C20: a proxy call whose discovery fails on every candidate answers 404,
\* opens no relay, and the endpoint cache is empty afterwards, so that the next
\* call discovers again.
C20_NotAvailableLeavesCacheEmpty ==
  [][\A k \in ProxyCallIds :
       (proxyCalls[k].pc = "probing" /\ proxyCalls'[k].pc = "idle")
          => /\ proxyCalls'[k].result = "404"
             /\ workingMJPEGUrl' = 0]_vars

\* C21: after the close event of a relay's client, no upstream request that was
\* opened for that call is open: neither the relayed request nor a request of
\* its discovery.
C21_ClientCloseCancelsUpstream ==
  [][\A k \in ProxyCallIds :
       ClientClose(k) => /\ proxyCalls'[k].pc \notin {"connecting", "relaying"}
                         /\ ~probeOpen'[k]]_vars

\* C22: when the upstream stream of a relay ends, the call is over: the client
\* response has been ended and the caller is not left waiting.
C22_UpstreamEndSettles ==
  [][\A k \in ProxyCallIds :
       ProxyResEnd(k) => proxyCalls'[k].pc = "idle"]_vars

\* C23: when a run of cleanupAll returns, the first or the second, the session
\* of every registered camera is Stopped and the snapshot timer is cancelled.
C23_ShutdownStopsEverything ==
  [][(cleanup.pc # "idle" /\ cleanup'.pc = "idle")
       => /\ \A id \in CamIds : cameras[id] # 0 => stream'[cameras[id]] = 0
          /\ refreshInterval' = 0]_vars

\* C24: a lookup fails with the not-found error exactly for the identifiers that
\* are not registered; a registration adds its identifier to listCameras and
\* makes the lookup of that identifier return the runtime just built from the
\* registered config, leaving every other identifier alone; no other step
\* (a failed lookup included) changes the registry.
C24_RegistryLookup ==
  [][/\ \A id \in CamIds : (getCameraOrThrow(id) = CameraNotFound) <=> (id \notin listCameras)
     /\ \A id \in CamIds, port \in Ports :
          registerCamera(id, port)
            => /\ {x \in CamIds : cameras'[x] # 0} = listCameras \cup {id}
               /\ cameras'[id] = nHandlers'
               /\ wsPort'[cameras'[id]] = port
               /\ \A x \in CamIds \ {id} : cameras'[x] = cameras[x]
     /\ (nHandlers' = nHandlers) => cameras' = cameras]_vars

\* 'default' has been registered again and 'cam1' never
C24_Witness ==
  /\ getCameraOrThrow("default") = 2
  /\ wsPort[2] # DefaultWsPort
  /\ getCameraOrThrow("cam1") = CameraNotFound
  /\ listCameras = {"default"}

\* C25: a discovery attempts the candidates in list order, one after the other
\* from the head of the list; the first candidate that answers with a valid
\* payload ends the discovery and is the one that is cached; a failed candidate
\* is followed by the next one of the list.
C25_FirstSatisfyingCandidate ==
  [][/\ \A n \in 1..Len(attempts) :
          /\ attempts[n].ep = n
          /\ attempts[n].out = "jpeg"
               => /\ n = Len(attempts)
                  /\ fetch.pc = "idle"
                  /\ fetchResult = "frame"
                  /\ workingSnapshotEndpoint[fetch.c] = n
     /\ \A k \in ProxyCallIds :
          /\ (ProxyStream(k) /\ workingMJPEGUrl = 0)
               => proxyCalls'[k].pc = "probing" /\ proxyCalls'[k].i = 1
          /\ proxyCalls[k].pc = "probing"
               => \/ proxyCalls'[k] = proxyCalls[k]
                  \/ /\ proxyCalls'[k].pc = "probing"
                     /\ proxyCalls'[k].i = proxyCalls[k].i + 1
                     /\ UNCHANGED workingMJPEGUrl
                  \/ /\ proxyCalls'[k].pc = "connecting"
                     /\ workingMJPEGUrl' = proxyCalls[k].i
                  \/ /\ proxyCalls'[k].pc = "idle"
                     /\ proxyCalls[k].i = NumMjpegPaths
                     /\ UNCHANGED workingMJPEGUrl]_vars

\* the first candidate failed, the second one answered with a JPEG
C25_Witness ==
  /\ Len(attempts) = NumSnapshotEndpoints
  /\ attempts[1].out # "jpeg"
  /\ attempts[NumSnapshotEndpoints].out = "jpeg"
  /\ workingSnapshotEndpoint[fetch.c] = NumSnapshotEndpoints

\* C26: the transcoder's options satisfy maxrate = 1.25 x bitrate,
\* bufsize = 2.5 x maxrate, minrate = 0.5 x bitrate and GOP = 2 x fps.
C26_BitrateBounds ==
  ffmpegOptions # NoOptions
    => /\ parseTenths(ffmpegOptions.maxrate.tenths) * 100 = bitrate.base * 125
       /\ parseTenths(ffmpegOptions.bufsize.tenths) * 10
            = parseTenths(ffmpegOptions.maxrate.tenths) * 25
       /\ parseTenths(ffmpegOptions.minrate.tenths) * 10 = bitrate.base * 5
       /\ ffmpegOptions.g = 2 * fps

\* C27: the URL in a log line is the source URL with the whole password
\* replaced by the placeholder.
C27_PasswordMasked ==
  logLine # <<>> => logLine = UrlHead \o <<"****">> \o UrlTail

\* C28: a getSnapshot call that started with a cached endpoint attempts that
\* endpoint only; it never probes the candidate list.
C28_CachedCallNeverProbes ==
  startedCached => attempts = <<>>

\* C29: a failed attempt on the cached endpoint, whatever the failure, adds one
\* to the failure counter (which starts again from 0 when the threshold clears
\* the cache), and a successful one resets it to 0.
C29_EveryCachedFailureCounts ==
  [][\A out \in Outcomes :
       CachedResult(out)
         => snapshotEndpointFailCount'[fetch.c] =
              IF out = "jpeg" THEN 0
              ELSE IF snapshotEndpointFailCount[fetch.c] + 1 >= maxFailuresBeforeRetry
                   THEN 0
                   ELSE snapshotEndpointFailCount[fetch.c] + 1]_vars

\* C30: a start on a camera that has a session stops that session and begins
\* to poll the port without launching anything; a transcoder is launched only
\* by a call whose last port check observed the port free.
C30_LaunchOnlyAfterFreePort ==
  [][/\ \A id \in CamIds :
          (StartRtspStream(id) /\ stream[cameras[id]] # 0)
            => /\ stream'[cameras[id]] = 0
               /\ procs'[stream[cameras[id]]].st # "running"
               /\ \E k \in CallIds : calls[k].pc = "idle" /\ calls'[k].pc = "w3"
               /\ \A p \in ProcIds : procs'[p].st = "running" => procs[p].st = "running"
     /\ \A p \in ProcIds :
          (procs[p].st # "running" /\ procs'[p].st = "running")
            => \E k \in CallIds :
                 /\ calls[k].pc \in {"ck", "w5"}
                 /\ calls[k].obs = "free"
                 /\ calls[k].h = procs'[p].h
                 /\ calls'[k].pc = "idle"]_vars

\* a session runs that was launched while the one it replaced is still going away
C30_Witness ==
  \E h \in Handlers : \E p, q \in ProcIds :
    /\ stream[h] = p
    /\ procs[p] = [st |-> "running", h |-> h]
    /\ procs[q] = [st |-> "killed", h |-> h]
    /\ \A k \in CallIds : calls[k].pc = "idle"

\* C31: a stopStream issued while a startStream call is waiting on the port is
\* not lost: that call launches no transcoder when it resumes.
C31_StopDuringStartNotLost ==
  [][\A k \in CallIds :
       (overtaken[k] /\ calls[k].pc # "idle" /\ calls'[k].pc = "idle")
         => \A p \in ProcIds : procs'[p].st = "running" => procs[p].st = "running"]_vars

\* C32: no transcoder is orphaned by its handler: every transcoder that has
\* neither exited nor been told to stop is the current stream of the handler
\* that launched it.
C32_NoOrphanedTranscoder ==
  \A p \in ProcIds : procs[p].st = "running" => stream[procs[p].h] = p

\* C33: re-registering an identifier does not leave its transcoder running
\* untracked: every transcoder that runs and has not been stopped belongs to a
\* handler the registry still holds under some identifier.
C33_ReregisterKeepsSessionReachable ==
  \A p \in ProcIds :
    procs[p].st = "running" => \E id \in CamIds : cameras[id] = procs[p].h

\* C34: once a run of cleanupAll has returned, no snapshot polling timer is
\* live, whatever a refresh that was in flight does when it completes.
C34_NoTimerAfterCleanup ==
  (cleanup.pc = "idle" /\ cleanup.runs >= 1) => refreshInterval = 0

\* C35: a pending auto-restart never tears down a session it did not replace:
\* when the restart timer fires, every transcoder that is running (a session
\* started manually since the exit) is left running.
C35_RestartSparesManualSession ==
  [][\A h \in Handlers :
       RestartTimer(h)
         => \A p \in ProcIds : procs[p].st = "running" => procs'[p].st = "running"]_vars

\* C36: when the MJPEG endpoint discovery of a call returns, with a working
\* candidate or with none, no request it opened is still open.
C36_DiscoveryClosesItsRequests ==
  [][\A k \in ProxyCallIds :
       (proxyCalls[k].pc = "probing" /\ proxyCalls'[k].pc # "probing")
         => ~probeOpen'[k]]_vars

\* C37: the in-flight flag is always released: whenever no fetch is under way,
\* the one that terminated last having succeeded or failed, isRefreshing is
\* false and no refresh call is open, so the guard lets the next one through.
C37_FlagReleased ==
  fetch.pc = "idle" => (~isRefreshing /\ refreshCalls = 0)

\* a second refresh passed the guard after the first one failed, and failed too
C37_Witness ==
  /\ fetch.pc = "idle"
  /\ fetchResult = "notfound"
  /\ consecutiveFailures = 2
  /\ ~isRefreshing
  /\ latestSnapshot = "null"

\* C38: the polling interval is the default or the degraded value; it is the
\* degraded value only while the consecutive-failure counter is at least the
\* threshold, and a counter of 0 goes with the default interval.
C38_SchedulerConsistent ==
  /\ currentIntervalMs \in {SNAPSHOT_INTERVAL_MS, DegradedIntervalMs}
  /\ currentIntervalMs = DegradedIntervalMs
       => consecutiveFailures >= MAX_CONSECUTIVE_FAILURES
  /\ consecutiveFailures = 0 => currentIntervalMs = SNAPSHOT_INTERVAL_MS

\* a camera that was degraded has recovered and has failed once since
C38_Witness ==
  /\ everSucceeded[cameras[snapCam]]
  /\ consecutiveFailures = 1
  /\ currentIntervalMs = SNAPSHOT_INTERVAL_MS
  /\ snapCam # "default"
  /\ refreshInterval = SNAPSHOT_INTERVAL_MS

\* C39: at most one polling timer is live for a camera at any time, after any
\* sequence of startup scheduling, slow-downs and restorations.
C39_AtMostOneTimer ==
  liveTimers <= 1 /\ (liveTimers = 1 <=> refreshInterval # 0)

\* the slow-down has replaced the startup timer of the default camera
C39_Witness ==
  /\ snapCam = "default"
  /\ consecutiveFailures >= MAX_CONSECUTIVE_FAILURES
  /\ currentIntervalMs = DegradedIntervalMs
  /\ liveTimers = 1

\* C40: a registration whose config carries no identifier is rejected and
\* leaves the registry as it was; it replaces the runtime of no camera.
C40_NoIdRejected ==
  [][\A port \in Ports :
       PostCameras(NoId, port) => UNCHANGED <<cameras, nHandlers>>]_vars

====
